---------------------------- MODULE Spec2Model ----------------------------
(***************************************************************************)
(* defmt-embassy-usbserial: the double-buffer Controller (controller.rs),  *)
(* the UsbEncoder that frames producer writes inside a critical section    *)
(* (lib.rs) and the drain side, in its two shapes: the logger task of      *)
(* task.rs, which selects, chunks and resets a buffer itself, and          *)
(* Controller::flush, which hands the buffer to a sender closure.          *)
(*                                                                         *)
(* A byte is <<frame, position>>: the position-th byte the producer wrote  *)
(* between the frame-th acquire and its release.  <<0, 0>> is the byte of  *)
(* the zero-initialised arrays.                                            *)
(*                                                                         *)
(* Each action is one call (acquire, write, flush, release) or one stretch *)
(* of the drain task between two of its suspension points.  The critical   *)
(* section excludes other critical sections only: the drain task's code    *)
(* outside one (selecting, sending, the logger's own buffer.reset()) may   *)
(* run while a producer holds it, as on a second core; its critical        *)
(* sections (disable, reset_buffer) wait for it.                           *)
(***************************************************************************)
EXTENDS Integers, Sequences, FiniteSets, TLC

\* Capacity of a LogBuffer's data array (buffer.rs).
Capacity == 3
\* The `size` argument of logger(): the transport's maximum packet size.
PacketSize == 2
\* Frames (acquire..release windows) the producers start.
MaxFrames == 2
\* Logger-trait calls (write or flush) the producers make, over all frames.
MaxCalls == 4
\* Longest byte slice one write call passes.
MaxWriteLen == 2

VARIABLES
    ctl,        \* CONTROLLER: [enabled, current_idx, buffers]
    taken,      \* USB_ENCODER.taken
    cs,         \* holder of the critical section: "none", "producer"
    nframes,    \* frames started so far; the open frame, if any, is nframes
    flen,       \* flen[f]: bytes frame f passed to write so far
    ncalls,     \* write/flush calls made so far
    ignored,    \* the last write/flush call found the controller disabled
    open,       \* frames the encoder has started and not ended
    fatal,      \* a panic has stopped the program
    pure,       \* only write calls on an enabled controller have run so far
    pc,         \* position of the drain task
    idx,        \* drain task: index of the buffer it selected
    n,          \* drain task: length of the slice data[..cursor] it took
    off,        \* drain task: bytes of the slice already passed to a send
    res,        \* drain task: result of the last send, until it is acted on
    ret,        \* drain task: what the last Controller::flush returned
    wire        \* bytes passed to the transport, in order

vars == <<ctl, taken, cs, nframes, flen, ncalls, ignored, open, fatal, pure,
          pc, idx, n, off, res, ret, wire>>

prodVars == <<taken, cs, nframes, flen, ncalls, ignored, open, fatal>>
drainVars == <<pc, idx, n, off, res, ret, wire>>

Zero == <<0, 0>>

Min(a, b) == IF a <= b THEN a ELSE b

(***************************************************************************)
(* LogBuffer                                                               *)
(***************************************************************************)
LogBuffer_new ==
    [data |-> [i \in 1..Capacity |-> Zero], cursor |-> 0, state |-> "Active"]

accepts(buf, len) == buf.cursor + len <= Capacity

LogBuffer_write(buf, bytes) ==
    [buf EXCEPT
        !.data = [i \in 1..Capacity |->
                    IF i > buf.cursor /\ i <= buf.cursor + Len(bytes)
                    THEN bytes[i - buf.cursor] ELSE buf.data[i]],
        !.cursor = buf.cursor + Len(bytes)]

LogBuffer_flush(buf) == [buf EXCEPT !.state = "Flushing"]

LogBuffer_reset(buf) == [buf EXCEPT !.cursor = 0, !.state = "Active"]

is_flushing(buf) == buf.state = "Flushing"

\* data[..cursor]
Used(buf) == SubSeq([i \in 1..Capacity |-> buf.data[i]], 1, buf.cursor)

(***************************************************************************)
(* Controller                                                              *)
(***************************************************************************)
Xor1(i) == 1 - i

Controller_new ==
    [enabled |-> TRUE, current_idx |-> 0,
     buffers |-> [i \in 0..1 |-> LogBuffer_new]]

enable(c) == [c EXCEPT !.enabled = TRUE]

\* disable, up to the critical section: the store of enabled.
disable_store(c) == [c EXCEPT !.enabled = FALSE]

\* Mutant of disable_reset: only the first buffer is reset.
disable_reset_first(c) ==
    [c EXCEPT !.buffers[0] = LogBuffer_reset(c.buffers[0])]

\* disable, the critical section: both buffers are reset.
disable_reset(c) ==
    [c EXCEPT !.buffers = [i \in 0..1 |-> LogBuffer_reset(c.buffers[i])]]

\* Mutant of swap: the enabled check is missing.
swap_unchecked(c) ==
    [c EXCEPT
        !.buffers[c.current_idx] = LogBuffer_flush(c.buffers[c.current_idx]),
        !.current_idx = Xor1(c.current_idx)]

swap(c) ==
    IF ~c.enabled THEN c
    ELSE [c EXCEPT
            !.buffers[c.current_idx] = LogBuffer_flush(c.buffers[c.current_idx]),
            !.current_idx = Xor1(c.current_idx)]

\* Mutant of write: after the swap it asks the retired buffer again.
write_no_retry(c, bytes) ==
    IF ~c.enabled THEN c
    ELSE LET current_idx == c.current_idx
         IN IF accepts(c.buffers[current_idx], Len(bytes))
            THEN [c EXCEPT !.buffers[current_idx] =
                              LogBuffer_write(c.buffers[current_idx], bytes)]
            ELSE LET s == [c EXCEPT
                             !.buffers[current_idx] =
                                 LogBuffer_flush(c.buffers[current_idx]),
                             !.current_idx = Xor1(current_idx)]
                 IN IF accepts(s.buffers[current_idx], Len(bytes))
                    THEN [s EXCEPT !.buffers[current_idx] =
                                     LogBuffer_write(s.buffers[current_idx], bytes)]
                    ELSE s

\* Mutant of write: the enabled check is missing.
write_unchecked(c, bytes) ==
    LET current_idx == c.current_idx
        other_idx == Xor1(current_idx)
    IN IF accepts(c.buffers[current_idx], Len(bytes))
       THEN [c EXCEPT !.buffers[current_idx] =
                         LogBuffer_write(c.buffers[current_idx], bytes)]
       ELSE LET s == [c EXCEPT
                        !.buffers[current_idx] =
                            LogBuffer_flush(c.buffers[current_idx]),
                        !.current_idx = other_idx]
            IN IF accepts(s.buffers[other_idx], Len(bytes))
               THEN [s EXCEPT !.buffers[other_idx] =
                                LogBuffer_write(s.buffers[other_idx], bytes)]
               ELSE s

\* Mutant of write: what the current buffer has room for goes there, the
\* rest goes to the other buffer.
write_split(c, bytes) ==
    IF ~c.enabled THEN c
    ELSE LET current_idx == c.current_idx
             other_idx == Xor1(current_idx)
             room == Capacity - c.buffers[current_idx].cursor
         IN IF accepts(c.buffers[current_idx], Len(bytes))
            THEN [c EXCEPT !.buffers[current_idx] =
                              LogBuffer_write(c.buffers[current_idx], bytes)]
            ELSE LET f == [c EXCEPT !.buffers[current_idx] =
                              LogBuffer_write(c.buffers[current_idx],
                                              SubSeq(bytes, 1, room))]
                     s == swap(f)
                     rest == SubSeq(bytes, room + 1, Len(bytes))
                 IN IF accepts(s.buffers[other_idx], Len(rest))
                    THEN [s EXCEPT !.buffers[other_idx] =
                                     LogBuffer_write(s.buffers[other_idx], rest)]
                    ELSE s

\* Mutant of write: after the swap the other buffer is not asked.
write_other_unchecked(c, bytes) ==
    IF ~c.enabled THEN c
    ELSE LET current_idx == c.current_idx
             other_idx == Xor1(current_idx)
         IN IF accepts(c.buffers[current_idx], Len(bytes))
            THEN [c EXCEPT !.buffers[current_idx] =
                              LogBuffer_write(c.buffers[current_idx], bytes)]
            ELSE LET s == swap(c)
                 IN [s EXCEPT !.buffers[other_idx] =
                                 LogBuffer_write(s.buffers[other_idx], bytes)]

write(c, bytes) ==
    IF ~c.enabled THEN c
    ELSE LET current_idx == c.current_idx
             other_idx == Xor1(current_idx)
         IN IF accepts(c.buffers[current_idx], Len(bytes))
            THEN [c EXCEPT !.buffers[current_idx] =
                              LogBuffer_write(c.buffers[current_idx], bytes)]
            ELSE LET s == swap(c)
                 IN IF accepts(s.buffers[other_idx], Len(bytes))
                    THEN [s EXCEPT !.buffers[other_idx] =
                                     LogBuffer_write(s.buffers[other_idx], bytes)]
                    ELSE s

\* Mutant of get_flushing: it looks at index 1 first.
get_flushing_last(c) ==
    IF is_flushing(c.buffers[1]) THEN 1
    ELSE IF is_flushing(c.buffers[0]) THEN 0
    ELSE 2

\* The index of the first flushing buffer, 2 for None.
get_flushing(c) ==
    IF is_flushing(c.buffers[0]) THEN 0
    ELSE IF is_flushing(c.buffers[1]) THEN 1
    ELSE 2

\* Mutant of reset_buffer: it resets the buffer at current_idx.
reset_buffer_current(c, buf_idx) ==
    [c EXCEPT !.buffers[c.current_idx] = LogBuffer_reset(c.buffers[c.current_idx])]

reset_buffer(c, buf_idx) ==
    [c EXCEPT !.buffers[buf_idx] = LogBuffer_reset(c.buffers[buf_idx])]

\* What flush returns once the sender has returned r: `res?; Ok(())`.
flush_result(r) == IF r # "Ok" THEN r ELSE "Ok"

(***************************************************************************)
(* UsbEncoder: the producers                                               *)
(***************************************************************************)
Init ==
    /\ ctl = Controller_new
    /\ taken = FALSE
    /\ cs = "none"
    /\ nframes = 0
    /\ flen = [f \in 1..MaxFrames |-> 0]
    /\ ncalls = 0
    /\ ignored = FALSE
    /\ open = 0
    /\ fatal = FALSE
    /\ pure = TRUE
    /\ pc = "wait_connection"
    /\ idx = 0
    /\ n = 0
    /\ off = 0
    /\ res = "Ok"
    /\ ret = "Ok"
    /\ wire = <<>>

\* The bytes the open frame passes in a call of length len.
FrameBytes(len) == [k \in 1..len |-> <<nframes, flen[nframes] + k>>]

Acquire ==
    /\ ~fatal
    /\ cs = "none"
    /\ ~taken
    /\ nframes < MaxFrames
    /\ cs' = "producer"
    /\ taken' = TRUE
    /\ nframes' = nframes + 1
    /\ open' = open + 1
    /\ ignored' = FALSE
    /\ UNCHANGED <<ctl, flen, ncalls, fatal, pure>>
    /\ UNCHANGED drainVars

Write ==
    /\ ~fatal
    /\ cs = "producer"
    /\ taken
    /\ ncalls < MaxCalls
    /\ \E len \in 1..MaxWriteLen :
          /\ ctl' = write(ctl, FrameBytes(len))
          /\ flen' = [flen EXCEPT ![nframes] = @ + len]
    /\ ncalls' = ncalls + 1
    /\ ignored' = ~ctl.enabled
    /\ pure' = (pure /\ ctl.enabled)
    /\ UNCHANGED <<taken, cs, nframes, open, fatal>>
    /\ UNCHANGED drainVars

Flush ==
    /\ ~fatal
    /\ cs = "producer"
    /\ taken
    /\ ncalls < MaxCalls
    /\ ctl' = swap(ctl)
    /\ ncalls' = ncalls + 1
    /\ ignored' = ~ctl.enabled
    /\ pure' = FALSE
    /\ UNCHANGED <<taken, cs, nframes, flen, open, fatal>>
    /\ UNCHANGED drainVars

Release ==
    /\ ~fatal
    /\ cs = "producer"
    /\ taken
    /\ taken' = FALSE
    /\ cs' = "none"
    /\ open' = open - 1
    /\ UNCHANGED <<ctl, nframes, flen, ncalls, ignored, fatal, pure>>
    /\ UNCHANGED drainVars

(***************************************************************************)
(* The drain task of task.rs: logger                                       *)
(***************************************************************************)
\* Results of Sender::write_packet: Ok, or an EndpointError.
SendResults == {"Ok", "Disabled", "BufferOverflow"}

\* Mutant of Chunk: a chunk takes one byte more than the packet size.
Chunk_long == SubSeq(ctl.buffers[idx].data, off + 1, Min(off + PacketSize + 1, n))

\* The chunk of the selected slice that starts at offset off.
Chunk == SubSeq(ctl.buffers[idx].data, off + 1, Min(off + PacketSize, n))

\* sender.wait_connection() completes; controller.enable().
Connect(next) ==
    /\ ~fatal
    /\ pc = "wait_connection"
    /\ ctl' = enable(ctl)
    /\ pc' = next
    /\ UNCHANGED <<idx, n, off, res, ret, wire, pure>>
    /\ UNCHANGED prodVars

\* Mutant of LoggerSelect: it looks at buffers[0] only.
LoggerSelect_first_only ==
    /\ ~fatal
    /\ pc = "select"
    /\ LET g == IF is_flushing(ctl.buffers[0]) THEN 0 ELSE 2
       IN IF g = 2
          THEN /\ pc' = "timer"
               /\ UNCHANGED <<idx, n, off>>
          ELSE /\ idx' = g
               /\ n' = ctl.buffers[g].cursor
               /\ off' = 0
               /\ pc' = IF ctl.buffers[g].cursor = 0 THEN "reset" ELSE "send"
    /\ UNCHANGED <<ctl, res, ret, wire, pure>>
    /\ UNCHANGED prodVars

\* 'select: the first flushing buffer, and the chunks of its data[..cursor].
LoggerSelect ==
    /\ ~fatal
    /\ pc = "select"
    /\ LET g == IF is_flushing(ctl.buffers[0]) THEN 0
                ELSE IF is_flushing(ctl.buffers[1]) THEN 1 ELSE 2
       IN IF g = 2
          THEN /\ pc' = "timer"
               /\ UNCHANGED <<idx, n, off>>
          ELSE /\ idx' = g
               /\ n' = ctl.buffers[g].cursor
               /\ off' = 0
               /\ pc' = IF ctl.buffers[g].cursor = 0 THEN "reset" ELSE "send"
    /\ UNCHANGED <<ctl, res, ret, wire, pure>>
    /\ UNCHANGED prodVars

\* Timer::after(100 ms) elapses.
LoggerTimer ==
    /\ ~fatal
    /\ pc = "timer"
    /\ pc' = "select"
    /\ UNCHANGED <<ctl, idx, n, off, res, ret, wire, pure>>
    /\ UNCHANGED prodVars

\* Mutant of LoggerSend: every error is taken for a disconnect.
LoggerSend_any_error ==
    /\ ~fatal
    /\ pc = "send"
    /\ wire' = wire \o Chunk
    /\ \E r \in SendResults :
          /\ res' = r
          /\ IF r # "Ok"
             THEN /\ ctl' = disable_store(ctl)
                  /\ pc' = "disable"
                  /\ off' = off
             ELSE /\ ctl' = ctl
                  /\ off' = Min(off + PacketSize, n)
                  /\ pc' = IF off + PacketSize >= n THEN "reset" ELSE "send"
    /\ UNCHANGED <<idx, n, ret, pure>>
    /\ UNCHANGED prodVars

\* One sender.write_packet(chunk).await and the match on its result.
LoggerSend ==
    /\ ~fatal
    /\ pc = "send"
    /\ wire' = wire \o Chunk
    /\ \E r \in SendResults :
          /\ res' = r
          /\ IF r = "Disabled"
             THEN /\ ctl' = disable_store(ctl)
                  /\ pc' = "disable"
                  /\ off' = off
             ELSE /\ ctl' = ctl
                  /\ off' = Min(off + PacketSize, n)
                  /\ pc' = IF off + PacketSize >= n THEN "reset" ELSE "send"
    /\ UNCHANGED <<idx, n, ret, pure>>
    /\ UNCHANGED prodVars

\* The critical section of controller.disable(), then continue 'main.
Disable ==
    /\ ~fatal
    /\ pc = "disable"
    /\ cs = "none"
    /\ ctl' = disable_reset(ctl)
    /\ pc' = "wait_connection"
    /\ res' = "Ok"
    /\ pure' = FALSE
    /\ UNCHANGED <<idx, n, off, ret, wire>>
    /\ UNCHANGED prodVars

\* buffer.reset(), outside any critical section: the cursor, then the state.
LoggerResetCursor ==
    /\ ~fatal
    /\ pc = "reset"
    /\ ctl' = [ctl EXCEPT !.buffers[idx].cursor = 0]
    /\ pc' = "reset_state"
    /\ res' = "Ok"
    /\ pure' = FALSE
    /\ UNCHANGED <<idx, n, off, ret, wire>>
    /\ UNCHANGED prodVars

LoggerResetState ==
    /\ ~fatal
    /\ pc = "reset_state"
    /\ ctl' = [ctl EXCEPT !.buffers[idx].state = "Active"]
    /\ pc' = "select"
    /\ UNCHANGED <<idx, n, off, res, ret, wire, pure>>
    /\ UNCHANGED prodVars

Next ==
    \/ Acquire
    \/ Write
    \/ Flush
    \/ Release
    \/ Connect("select")
    \/ LoggerSelect
    \/ LoggerTimer
    \/ LoggerSend
    \/ Disable
    \/ LoggerResetCursor
    \/ LoggerResetState

Spec == Init /\ [][Next]_vars

(***************************************************************************)
(* The drain task around Controller::flush: it calls flush with a sender   *)
(* that sends the slice in chunks of at most PacketSize bytes and stops at *)
(* the first error, and calls disable when flush returns a disconnect.     *)
(***************************************************************************)
\* flush, up to the await of the sender: get_flushing and the slice.
FlushBegin ==
    /\ ~fatal
    /\ pc = "flush"
    /\ LET g == get_flushing(ctl)
       IN IF g = 2
          THEN /\ ret' = "Ok"
               /\ pc' = "flush_returned"
               /\ UNCHANGED <<idx, n, off, res>>
          ELSE /\ idx' = g
               /\ n' = ctl.buffers[g].cursor
               /\ off' = 0
               /\ res' = "Ok"
               /\ pc' = IF ctl.buffers[g].cursor = 0
                        THEN "reset_buffer" ELSE "flusher"
               /\ ret' = ret
    /\ UNCHANGED <<ctl, wire, pure>>
    /\ UNCHANGED prodVars

\* The sender: one packet send; it returns at the first error or at the end.
SenderSend ==
    /\ ~fatal
    /\ pc = "flusher"
    /\ wire' = wire \o Chunk
    /\ \E r \in SendResults :
          /\ res' = r
          /\ off' = IF r = "Ok" THEN Min(off + PacketSize, n) ELSE off
          /\ pc' = IF r = "Ok" /\ off + PacketSize < n
                   THEN "flusher" ELSE "reset_buffer"
    /\ UNCHANGED <<ctl, idx, n, ret, pure>>
    /\ UNCHANGED prodVars

\* flush, after the sender returned: reset_buffer in its critical section,
\* then the result.
FlushFinish ==
    /\ ~fatal
    /\ pc = "reset_buffer"
    /\ cs = "none"
    /\ ctl' = reset_buffer(ctl, idx)
    /\ ret' = flush_result(res)
    /\ pc' = "flush_returned"
    /\ pure' = FALSE
    /\ UNCHANGED <<idx, n, off, res, wire>>
    /\ UNCHANGED prodVars

\* The drain loop on the result of flush.
FlushReturned ==
    /\ ~fatal
    /\ pc = "flush_returned"
    /\ IF ret = "Disabled"
       THEN /\ ctl' = disable_store(ctl)
            /\ pc' = "disable"
       ELSE /\ ctl' = ctl
            /\ pc' = "flush"
    /\ UNCHANGED <<idx, n, off, res, ret, wire, pure>>
    /\ UNCHANGED prodVars

NextCtl ==
    \/ Acquire
    \/ Write
    \/ Flush
    \/ Release
    \/ Connect("flush")
    \/ FlushBegin
    \/ SenderSend
    \/ FlushFinish
    \/ FlushReturned
    \/ Disable

SpecCtl == Init /\ [][NextCtl]_vars

(***************************************************************************)
(* UsbEncoder: the calls that break the acquire/release pairing            *)
(***************************************************************************)
\* Mutant of AcquireTaken: the taken check is missing, a second frame starts.
AcquireTaken_unchecked ==
    /\ ~fatal
    /\ cs = "producer"
    /\ taken
    /\ nframes < MaxFrames
    /\ nframes' = nframes + 1
    /\ open' = open + 1
    /\ ignored' = FALSE
    /\ UNCHANGED <<ctl, taken, cs, flen, ncalls, fatal, pure>>
    /\ UNCHANGED drainVars

\* acquire called inside an open frame: the critical section nests, then
\* the taken check panics.
AcquireTaken ==
    /\ ~fatal
    /\ cs = "producer"
    /\ taken
    /\ fatal' = TRUE
    /\ UNCHANGED <<ctl, taken, cs, nframes, flen, ncalls, ignored, open, pure>>
    /\ UNCHANGED drainVars

\* release called with no frame open: the taken check panics.
ReleaseNotTaken ==
    /\ ~fatal
    /\ ~taken
    /\ fatal' = TRUE
    /\ UNCHANGED <<ctl, taken, cs, nframes, flen, ncalls, ignored, open, pure>>
    /\ UNCHANGED drainVars

NextEnc ==
    \/ Acquire
    \/ Write
    \/ Flush
    \/ Release
    \/ AcquireTaken
    \/ ReleaseNotTaken
    \/ Connect("select")
    \/ LoggerSelect
    \/ LoggerTimer
    \/ LoggerSend
    \/ Disable
    \/ LoggerResetCursor
    \/ LoggerResetState

SpecEnc == Init /\ [][NextEnc]_vars

(***************************************************************************)
(* Controller::write alone: one call, of any length up to one more than a  *)
(* buffer holds, on any controller the producers can find.                 *)
(***************************************************************************)
\* A buffer that holds c bytes of earlier frames.
FilledBuffer(c, st) ==
    [data |-> [k \in 1..Capacity |-> IF k <= c THEN <<0, k>> ELSE Zero],
     cursor |-> c, state |-> st]

\* Enabled with buffers in any condition, or disabled with both reset.
Controllers ==
    {[enabled |-> TRUE, current_idx |-> i,
      buffers |-> (0 :> FilledBuffer(c[1], st[1]) @@ 1 :> FilledBuffer(c[2], st[2]))] :
        i \in 0..1,
        c \in (0..Capacity) \X (0..Capacity),
        st \in {"Active", "Flushing"} \X {"Active", "Flushing"}}
    \cup
    {[enabled |-> FALSE, current_idx |-> i,
      buffers |-> [b \in 0..1 |-> LogBuffer_new]] : i \in 0..1}

InitWrite ==
    /\ ctl \in Controllers
    /\ taken = TRUE
    /\ cs = "producer"
    /\ nframes = 1
    /\ flen = [f \in 1..MaxFrames |-> 0]
    /\ ncalls = 0
    /\ ignored = FALSE
    /\ open = 1
    /\ fatal = FALSE
    /\ pure = FALSE
    /\ pc = "wait_connection"
    /\ idx = 0
    /\ n = 0
    /\ off = 0
    /\ res = "Ok"
    /\ ret = "Ok"
    /\ wire = <<>>

WriteAny ==
    /\ ncalls = 0
    /\ \E len \in 1..(Capacity + 1) :
          /\ ctl' = write(ctl, FrameBytes(len))
          /\ flen' = [flen EXCEPT ![nframes] = @ + len]
    /\ ncalls' = ncalls + 1
    /\ ignored' = ~ctl.enabled
    /\ UNCHANGED <<taken, cs, nframes, open, fatal, pure>>
    /\ UNCHANGED drainVars

SpecWrite == InitWrite /\ [][WriteAny]_vars

(***************************************************************************)
(* The logger task under fair scheduling, with a transport that stays      *)
(* connected and completes every send.  The producers' bytes are not told  *)
(* apart and the wire is not recorded, so the producers can be followed    *)
(* for ever.  With bounded = TRUE the producers make at most MaxCalls      *)
(* calls and then make no more.                                            *)
(***************************************************************************)
AcquireLive ==
    /\ cs = "none"
    /\ ~taken
    /\ cs' = "producer"
    /\ taken' = TRUE
    /\ open' = open + 1
    /\ ignored' = FALSE
    /\ UNCHANGED <<ctl, nframes, flen, ncalls, fatal, pure>>
    /\ UNCHANGED drainVars

WriteLive(bounded) ==
    /\ cs = "producer"
    /\ taken
    /\ bounded => ncalls < MaxCalls
    /\ \E len \in 1..MaxWriteLen :
          ctl' = write(ctl, [k \in 1..len |-> Zero])
    /\ ncalls' = IF bounded THEN ncalls + 1 ELSE ncalls
    /\ ignored' = ~ctl.enabled
    /\ UNCHANGED <<taken, cs, nframes, flen, open, fatal, pure>>
    /\ UNCHANGED drainVars

FlushLive(bounded) ==
    /\ cs = "producer"
    /\ taken
    /\ bounded => ncalls < MaxCalls
    /\ ctl' = swap(ctl)
    /\ ncalls' = IF bounded THEN ncalls + 1 ELSE ncalls
    /\ ignored' = ~ctl.enabled
    /\ UNCHANGED <<taken, cs, nframes, flen, open, fatal, pure>>
    /\ UNCHANGED drainVars

\* A packet send that completes, with Ok or with an error that is no
\* disconnect.
LoggerSendLive ==
    /\ pc = "send"
    /\ \E r \in SendResults \ {"Disabled"} : res' = r
    /\ off' = Min(off + PacketSize, n)
    /\ pc' = IF off + PacketSize >= n THEN "reset" ELSE "send"
    /\ UNCHANGED <<ctl, idx, n, ret, wire, pure>>
    /\ UNCHANGED prodVars

\* The steps of the logger task.
DrainLive ==
    \/ Connect("select")
    \/ LoggerSelect
    \/ LoggerTimer
    \/ LoggerSendLive
    \/ LoggerResetCursor
    \/ LoggerResetState

NextLive ==
    \/ AcquireLive
    \/ WriteLive(FALSE)
    \/ FlushLive(FALSE)
    \/ Release
    \/ Connect("select")
    \/ LoggerSelect
    \/ LoggerTimer
    \/ LoggerSendLive
    \/ LoggerResetCursor
    \/ LoggerResetState

SpecLive == Init /\ [][NextLive]_vars /\ WF_vars(DrainLive)

NextLiveStop ==
    \/ AcquireLive
    \/ WriteLive(TRUE)
    \/ FlushLive(TRUE)
    \/ Release
    \/ Connect("select")
    \/ LoggerSelect
    \/ LoggerTimer
    \/ LoggerSendLive
    \/ LoggerResetCursor
    \/ LoggerResetState

SpecLiveStop == Init /\ [][NextLiveStop]_vars /\ WF_vars(DrainLive)

(***************************************************************************)
(* Notions the properties share                                            *)
(***************************************************************************)
\* A buffer as reset leaves it.
Clean(buf) == buf.state = "Active" /\ buf.cursor = 0

\* The bytes visible in data[..cursor] of one of the two buffers.
InBuffers ==
    {ctl.buffers[i].data[k] : <<i, k>> \in
        {q \in (0..1) \X (1..Capacity) : q[2] <= ctl.buffers[q[1]].cursor}}

\* Every byte a write call was given.
AllWritten ==
    {q \in (1..MaxFrames) \X (1..(MaxCalls * MaxWriteLen)) : q[2] <= flen[q[1]]}

RECURSIVE SumTo(_)
SumTo(f) == IF f = 0 THEN 0 ELSE flen[f] + SumTo(f - 1)

\* Total length of all write calls.
Total == SumTo(MaxFrames)

\* A step that is a call of Controller::write / of the flush hook.
WriteStep == flen' # flen
HookStep == ncalls' # ncalls

\* Frame f has been released.
Released(f) == f < nframes \/ (f = nframes /\ ~taken)

\* The bytes of frame f on the wire, and where they are.
WireOf(f) == SelectSeq(wire, LAMBDA b : b[1] = f)
WirePlaces(f) == {k \in 1..Len(wire) : wire[k][1] = f}

(***************************************************************************)
(* C1: no torn frame is transmitted.  The bytes of a frame on the wire are *)
(* contiguous and in write order, and once the frame is released and none  *)
(* of its bytes waits in a buffer, the wire holds all of them or none.     *)
(***************************************************************************)
C1_NoTornFrame ==
    \A f \in 1..MaxFrames :
        /\ \A j, k \in WirePlaces(f) : \A m \in j..k : m \in WirePlaces(f)
        /\ \A k \in 1..Len(WireOf(f)) : WireOf(f)[k] = <<f, k>>
        /\ (Released(f) /\ ~(\E b \in InBuffers : b[1] = f))
              => Len(WireOf(f)) \in {0, flen[f]}

(***************************************************************************)
(* C2: a buffer that is Flushing is never appended to: no write call       *)
(* changes the cursor or the data of a buffer that is Flushing.            *)
(***************************************************************************)
C2_FlushingNeverAppended ==
    [][WriteStep =>
         \A i \in 0..1 :
            is_flushing(ctl.buffers[i]) =>
               /\ ctl'.buffers[i].cursor = ctl.buffers[i].cursor
               /\ ctl'.buffers[i].data = ctl.buffers[i].data]_vars

(***************************************************************************)
(* C3: write calls alone, on an enabled controller, from two empty Active  *)
(* buffers, each of at most Capacity bytes: no byte is lost.  As claimed,  *)
(* up to a total of 2 * Capacity bytes; as amended, up to a total of       *)
(* Capacity + ceil((Capacity + 1) / 2) bytes.                              *)
(***************************************************************************)
C3_Original ==
    (pure /\ Total <= 2 * Capacity) => AllWritten \subseteq InBuffers

C3_NoBytesLost ==
    (pure /\ Total <= Capacity + ((Capacity + 2) \div 2))
        => AllWritten \subseteq InBuffers

C3_Witness ==
    /\ pure
    /\ Total = Capacity + ((Capacity + 2) \div 2)
    /\ ctl.current_idx = 1
    /\ is_flushing(ctl.buffers[0])
    /\ AllWritten \subseteq InBuffers

(***************************************************************************)
(* C4: when flush has handed a buffer to the sender and the sender has     *)
(* returned, with Ok or with an error, flush resets that buffer (Active,   *)
(* cursor 0) and returns the sender's result.                              *)
(***************************************************************************)
C4_FlushResets ==
    [][(pc = "reset_buffer" /\ pc' = "flush_returned") =>
         /\ Clean(ctl'.buffers[idx])
         /\ ret' = res]_vars

C4_Witness ==
    /\ pc = "flush_returned"
    /\ ret = "BufferOverflow"
    /\ wire # <<>>
    /\ Clean(ctl.buffers[idx])

(***************************************************************************)
(* C5: when disable completes, enabled is false and both buffers are       *)
(* Active with cursor 0, whatever they held before.                        *)
(***************************************************************************)
C5_DisableResets ==
    [][(pc = "disable" /\ pc' = "wait_connection") =>
         /\ ~ctl'.enabled
         /\ \A i \in 0..1 : Clean(ctl'.buffers[i])]_vars

\* disable has completed, and both buffers held bytes that were written.
C5_Witness ==
    /\ pc = "wait_connection"
    /\ ~ctl.enabled
    /\ \A i \in 0..1 : Clean(ctl.buffers[i]) /\ ctl.buffers[i].data[1] # Zero

(***************************************************************************)
(* C6: enabled = FALSE implies both buffers Active with cursor 0.  As      *)
(* claimed, in every state; as amended, in every state in which disable is *)
(* not between its store of enabled and its critical section.              *)
(***************************************************************************)
C6_Original ==
    ~ctl.enabled => \A i \in 0..1 : Clean(ctl.buffers[i])

C6_DisabledClean ==
    (~ctl.enabled /\ pc # "disable") => \A i \in 0..1 : Clean(ctl.buffers[i])

\* disable has completed and a producer has since made a call.
C6_Witness ==
    /\ ~ctl.enabled
    /\ pc = "wait_connection"
    /\ taken
    /\ ignored

(***************************************************************************)
(* C7: while enabled = FALSE a call of write or of swap changes neither    *)
(* current_idx nor any buffer's cursor, data or state.                     *)
(***************************************************************************)
C7_DisabledNoop ==
    [][(~ctl.enabled /\ HookStep) => ctl' = ctl]_vars

\* A call was made on the disabled controller, inside a frame.
C7_Witness ==
    /\ ~ctl.enabled
    /\ taken
    /\ ignored
    /\ ncalls > 0

(***************************************************************************)
(* C8: on an enabled controller a swap makes exactly one buffer go from    *)
(* Active to Flushing, flips current_idx, and the buffer at the new        *)
(* current_idx is Active.                                                  *)
(***************************************************************************)
C8_SwapRetiresOne ==
    [][(ctl.enabled /\ ctl'.current_idx # ctl.current_idx) =>
         /\ Cardinality({i \in 0..1 : /\ ctl.buffers[i].state = "Active"
                                      /\ ctl'.buffers[i].state = "Flushing"}) = 1
         /\ ctl'.current_idx = Xor1(ctl.current_idx)
         /\ ctl'.buffers[ctl'.current_idx].state = "Active"]_vars

(***************************************************************************)
(* C9: at most one of the two buffers is Flushing.                         *)
(***************************************************************************)
C9_AtMostOneFlushing ==
    ~(is_flushing(ctl.buffers[0]) /\ is_flushing(ctl.buffers[1]))

(***************************************************************************)
(* C10: per buffer, writes come before the swap that retires it, the swap  *)
(* before the hand-off to the sender, the hand-off before the reset: a     *)
(* write call changes only a buffer that is Active and that the drain task *)
(* has not selected, and the buffer flush hands off is Flushing.           *)
(***************************************************************************)
Selected(i) == pc \in {"flusher", "reset_buffer"} /\ idx = i

C10_PerBufferOrder ==
    [][/\ WriteStep =>
            \A i \in 0..1 :
               (\/ ctl'.buffers[i].cursor # ctl.buffers[i].cursor
                \/ ctl'.buffers[i].data # ctl.buffers[i].data)
                  => ctl.buffers[i].state = "Active" /\ ~Selected(i)
       /\ (pc = "flush" /\ pc' \in {"flusher", "reset_buffer"})
            => is_flushing(ctl.buffers[idx'])]_vars

(***************************************************************************)
(* C11: taken is true exactly while a frame is open, and there is never    *)
(* more than one; a call that panics (acquire while taken, release while   *)
(* not taken) starts no frame, ends none, leaves the controller alone and  *)
(* does not give up the critical section.                                  *)
(***************************************************************************)
C11_TakenGuards ==
    [][/\ open' \in {0, 1}
       /\ taken' = (open' = 1)
       /\ taken' = (cs' = "producer")
       /\ (fatal' /\ ~fatal) =>
             UNCHANGED <<ctl, taken, cs, nframes, flen, open, wire>>]_vars

\* An acquire inside an open frame has panicked.
C11_Witness ==
    /\ fatal
    /\ taken
    /\ open = 1
    /\ cs = "producer"
    /\ flen[nframes] > 0

(***************************************************************************)
(* C12: a call of Controller::flush invokes the sender at most once.  With *)
(* no buffer Flushing it returns Ok, sends nothing and changes nothing.    *)
(* Otherwise the sender gets data[0..cursor] of the Flushing buffer of     *)
(* lowest index, once, and flush neither hands off nor resets the other    *)
(* buffer.                                                                 *)
(***************************************************************************)
\* A step of the drain task inside a call of flush.
FlushCallStep ==
    /\ pc \in {"flush", "flusher", "reset_buffer"}
    /\ <<pc, off, wire>>' # <<pc, off, wire>>

C12_FlushOneBuffer ==
    [][/\ (pc = "flush" /\ FlushCallStep) =>
            IF \A i \in 0..1 : ~is_flushing(ctl.buffers[i])
            THEN /\ pc' = "flush_returned"
                 /\ ret' = "Ok"
                 /\ ctl' = ctl
                 /\ wire' = wire
            ELSE /\ pc' \in {"flusher", "reset_buffer"}
                 /\ is_flushing(ctl.buffers[idx'])
                 /\ \A i \in 0..1 : is_flushing(ctl.buffers[i]) => idx' <= i
                 /\ n' = ctl.buffers[idx'].cursor
                 /\ off' = 0
                 /\ ctl' = ctl
       /\ (pc' = "flusher" /\ pc # "flusher") => pc = "flush"
       /\ (pc = "flusher" /\ FlushCallStep) =>
            /\ UNCHANGED <<idx, n, ctl>>
            /\ pc' \in {"flusher", "reset_buffer"}
            /\ (pc' = "reset_buffer" /\ res' = "Ok") =>
                  /\ Len(wire') >= n
                  /\ \A k \in 1..n :
                        wire'[Len(wire') - n + k] = ctl.buffers[idx].data[k]
       /\ (pc = "reset_buffer" /\ FlushCallStep) =>
            /\ pc' = "flush_returned"
            /\ wire' = wire
            /\ ctl'.buffers[Xor1(idx)] = ctl.buffers[Xor1(idx)]
            /\ ctl'.current_idx = ctl.current_idx
            /\ ctl'.enabled = ctl.enabled]_vars

\* Both buffers are Flushing and the sender is part way through buffer 0.
C12_Witness ==
    /\ pc = "flusher"
    /\ idx = 0
    /\ off > 0
    /\ is_flushing(ctl.buffers[0])
    /\ is_flushing(ctl.buffers[1])
    /\ ctl.buffers[1].cursor > 0

(***************************************************************************)
(* C13: the drain task goes WaitConnection -> Draining -> WaitConnection.  *)
(* enabled becomes false only by a packet send of the draining task that   *)
(* reports Disabled; from then on no packet is sent, and once disable has  *)
(* returned both buffers are Active with cursor 0, until wait_connection   *)
(* completes.  enabled becomes true only when wait_connection completes.   *)
(***************************************************************************)
Draining == {"select", "timer", "send", "reset", "reset_state"}

C13_ConnectionPhases ==
    [][/\ (ctl.enabled /\ ~ctl'.enabled) =>
            pc = "send" /\ wire' # wire /\ res' = "Disabled" /\ pc' = "disable"
       /\ (pc = "send" /\ wire' # wire /\ res' = "Disabled") => ~ctl'.enabled
       /\ (~ctl.enabled /\ ctl'.enabled) =>
            pc = "wait_connection" /\ pc' \in Draining
       /\ (pc = "wait_connection" /\ pc' # pc) =>
            ctl'.enabled /\ pc' \in Draining
       /\ (pc \in Draining /\ pc' \notin Draining) =>
            pc' = "disable" /\ ~ctl'.enabled
       /\ (pc = "disable" /\ pc' # pc) => pc' = "wait_connection"
       /\ ~ctl.enabled => wire' = wire
       /\ ~ctl'.enabled => pc' \in {"disable", "wait_connection"}
       /\ (~ctl'.enabled /\ pc' = "wait_connection") =>
            \A i \in 0..1 : Clean(ctl'.buffers[i])]_vars

\* A disconnect has ended a drain after more than one packet, and bytes
\* that were never sent have been discarded.
C13_Witness ==
    /\ pc = "wait_connection"
    /\ ~ctl.enabled
    /\ Len(wire) > PacketSize
    /\ Total > Len(wire)

(***************************************************************************)
(* C14: a packet send of the draining task that fails with an error other  *)
(* than Disabled ends the drain attempt: the error is reported as the      *)
(* result, the next thing done to the buffer is its reset (no further      *)
(* chunk of it is sent), and the controller stays enabled.                 *)
(***************************************************************************)
C14_ErrorEndsAttempt ==
    [][(pc = "send" /\ wire' # wire /\ res' \notin {"Ok", "Disabled"}) =>
         /\ ret' = res'
         /\ pc' = "reset"
         /\ ctl'.enabled = ctl.enabled]_vars

(***************************************************************************)
(* C15: a write call on an enabled controller is all or nothing.  If the   *)
(* current buffer has room (cursor + length <= Capacity, inclusive) all    *)
(* the bytes are appended to it and nothing else changes.  Otherwise the   *)
(* current buffer is retired by one swap and all the bytes are appended to *)
(* the other buffer if that one has room, else to neither.  The bytes of   *)
(* one call are never split between the buffers.                           *)
(***************************************************************************)
CallLen == flen'[nframes] - flen[nframes]

\* Buffer i gets the bytes of the call after what it held, in order.
Appended(i) ==
    /\ ctl'.buffers[i].cursor = ctl.buffers[i].cursor + CallLen
    /\ ctl'.buffers[i].state = ctl.buffers[i].state
    /\ \A k \in 1..Capacity :
          ctl'.buffers[i].data[k] =
             IF k > ctl.buffers[i].cursor /\ k <= ctl.buffers[i].cursor + CallLen
             THEN <<nframes, flen[nframes] + (k - ctl.buffers[i].cursor)>>
             ELSE ctl.buffers[i].data[k]

C15_WriteAllOrNothing ==
    [][(WriteStep /\ ctl.enabled) =>
         LET cur == ctl.current_idx
             oth == 1 - ctl.current_idx
         IN IF ctl.buffers[cur].cursor + CallLen <= Capacity
            THEN /\ ctl'.current_idx = cur
                 /\ Appended(cur)
                 /\ ctl'.buffers[oth] = ctl.buffers[oth]
            ELSE /\ ctl'.current_idx = oth
                 /\ ctl'.buffers[cur] =
                       [ctl.buffers[cur] EXCEPT !.state = "Flushing"]
                 /\ IF ctl.buffers[oth].cursor + CallLen <= Capacity
                    THEN Appended(oth)
                    ELSE ctl'.buffers[oth] = ctl.buffers[oth]]_vars

\* A call longer than a buffer found two empty buffers: one swap, no byte
\* written.
C15_Witness ==
    /\ ncalls = 1
    /\ flen[1] = Capacity + 1
    /\ ctl.enabled
    /\ ctl.current_idx = 1
    /\ is_flushing(ctl.buffers[0])
    /\ \A i \in 0..1 : ctl.buffers[i].cursor = 0

(***************************************************************************)
(* C16: every cursor stays within 0..Capacity; a cursor goes down only in  *)
(* a reset, which sets it to 0; so a buffer that has no room for n bytes   *)
(* has none until it is reset.                                             *)
(***************************************************************************)
\* A step that resets buffer i: the drain task's reset, or disable's.
ResetStep(i) ==
    \/ pc = "reset" /\ pc' = "reset_state" /\ idx = i
    \/ pc = "reset_buffer" /\ pc' = "flush_returned" /\ idx = i
    \/ pc = "disable" /\ pc' = "wait_connection"

C16_CursorBounds ==
    [][\A i \in 0..1 :
         /\ ctl.buffers[i].cursor \in 0..Capacity
         /\ ctl'.buffers[i].cursor \in 0..Capacity
         /\ ctl'.buffers[i].cursor < ctl.buffers[i].cursor =>
               ctl'.buffers[i].cursor = 0 /\ ResetStep(i)
         /\ \A len \in 0..(Capacity + 1) :
               (ctl.buffers[i].cursor + len > Capacity /\ ~ResetStep(i))
                  => ctl'.buffers[i].cursor + len > Capacity]_vars

\* A full buffer was retired and selected, and its cursor has been reset.
C16_Witness ==
    /\ pc = "reset_state"
    /\ n = Capacity
    /\ ctl.buffers[idx].cursor = 0
    /\ ctl.buffers[1 - idx].cursor > 0

(***************************************************************************)
(* C17: every reset made for the drain task runs inside the critical       *)
(* section: no producer holds it when a reset step is taken, and no        *)
(* producer call falls between the reset of a buffer's cursor and the      *)
(* reset of its state.                                                     *)
(***************************************************************************)
C17_ResetsExclusive ==
    [][/\ (\E i \in 0..1 : ResetStep(i)) => cs = "none"
       /\ pc = "reset_state" => UNCHANGED <<taken, cs, ncalls>>]_vars

(***************************************************************************)
(* C18: the logger sends the slice data[0..cursor] of the buffer it drains *)
(* in packets of 1 to PacketSize bytes, none reaching beyond the slice,    *)
(* and when the last one has been sent the packets, in order, are the      *)
(* slice.                                                                  *)
(***************************************************************************)
C18_PacketsAreSlice ==
    [][/\ (pc = "select" /\ pc' \in {"send", "reset"}) =>
            /\ is_flushing(ctl.buffers[idx'])
            /\ n' = ctl.buffers[idx'].cursor
            /\ off' = 0
       /\ (pc = "send" /\ wire' # wire) =>
            /\ Len(wire') - Len(wire) \in 1..PacketSize
            /\ Len(wire') - Len(wire) = off' - off \/ res' = "Disabled"
            /\ Len(wire') - Len(wire) <= n - off
            /\ \A k \in 1..(Len(wire') - Len(wire)) :
                  wire'[Len(wire) + k] = ctl.buffers[idx].data[off + k]
       /\ (pc = "send" /\ pc' = "reset") =>
            /\ off' = n
            /\ Len(wire') >= n
            /\ \A k \in 1..n :
                  wire'[Len(wire') - n + k] = ctl.buffers[idx].data[k]]_vars

\* A full buffer has been sent, in more than one packet when PacketSize is
\* less than Capacity.
C18_Witness ==
    /\ pc = "reset"
    /\ n = Capacity
    /\ off = n
    /\ Len(wire) >= n
    /\ res = "Ok"

(***************************************************************************)
(* C19: under weak fairness of the drain task, with the transport          *)
(* connected and every send completing, a buffer that is Flushing is       *)
(* eventually reset, whatever the producers do; slot 1 is not starved.     *)
(* Stated with the least a reset does: the buffer is no longer Flushing.   *)
(***************************************************************************)
C19_FlushingEventuallyReset ==
    \A i \in 0..1 : is_flushing(ctl.buffers[i]) ~> ~is_flushing(ctl.buffers[i])

=============================================================================
